---- MODULE Spec2Model ----
(***************************************************************************)
(* Model of src/functions/pdf-to-images/app.py: the Lambda `handler` that  *)
(* downloads {jobId}/original.pdf, renders each page to a PNG, uploads the *)
(* images to {jobId}_pages/page_{i}.png and publishes an ImagesGenerated   *)
(* event.  One invocation runs at a time (a Lambda execution environment   *)
(* serves one event at a time); /tmp, the bucket and the event bus persist *)
(* from one invocation to the next.                                        *)
(***************************************************************************)
EXTENDS Integers, Sequences, FiniteSets, TLC

VARIABLES
    pc,              \* position of the running invocation in handler
    event,           \* the trigger payload handed to handler
    environ,         \* os.environ of the deployed function
    job_id,          \* local job_id (Unbound before line 20 assigns it)
    pdf_bucket,      \* local pdf_bucket
    event_bus_name,  \* local event_bus_name
    pdf,             \* the opened PdfDocument (content of local_pdf)
    page_count,      \* local page_count
    i,               \* loop variable of `for i in range(page_count)`
    output_keys,     \* local output_keys
    s3,              \* objects of the bucket: key -> content
    tmp,             \* files under /tmp: path -> content
    bus,             \* entries the event bus has accepted, in order
    log,             \* warning and error records logged by this invocation
    exc,             \* the exception in flight ("none" when there is none)
    result,          \* what the invocation handed back to its caller
    nInv,            \* number of invocations started so far
    h,               \* history of the running invocation's external calls
    prev             \* outcome of the invocation before the running one

vars == <<pc, event, environ, job_id, pdf_bucket, event_bus_name, pdf, page_count,
          i, output_keys, s3, tmp, bus, log, exc, result, nInv, h, prev>>

-----------------------------------------------------------------------------
(* Bounds of the model *)

MaxPages == 2
MaxInvocations == 2

-----------------------------------------------------------------------------
(* Python values *)

\* the value None, and a key that is missing from a dict
NoneV == "<None>"
Absent == "<absent>"
\* a local variable that has not been assigned yet
Unbound == "<unbound>"

\* dict.get(key): the value, or None when the key is missing
Get(v) == IF v = Absent THEN NoneV ELSE v

\* truth value of an optional string: None and "" are falsy
Truthy(v) == v # NoneV /\ v # ""

\* str(v) as an f-string formats it
Str(v) == IF v = NoneV THEN "None" ELSE v

\* a dict: key -> value, with a dynamic key set
EmptyMap == [k \in {} |-> ""]
Put(m, k, v) == [x \in (DOMAIN m) \cup {k} |-> IF x = k THEN v ELSE m[x]]
Remove(m, k) == [x \in (DOMAIN m) \ {k} |-> m[x]]

-----------------------------------------------------------------------------
(* Inputs *)

JobIds == {"abc123", "j2"}
BucketName == "docs"
BusName == "bus1"

\* a PDF document with n pages, and a file that is not a valid PDF
DocName(n) == "pdf" \o ToString(n)
CorruptDoc == "notapdf"
Docs == {DocName(n) : n \in 0..MaxPages} \cup {CorruptDoc}

\* trigger payloads: `detail` is missing, null, not a dict, or a dict whose
\* jobId is missing, null, empty or a job id; `Records` is present or not
Payloads ==
    [detail : {"absent", "none", "scalar"}, jobId : {Absent}, Records : BOOLEAN]
    \cup [detail : {"map"}, jobId : {Absent, NoneV, ""} \cup JobIds, Records : BOOLEAN]

Environs ==
    [S3_BUCKET_PDFS : {Absent, "", BucketName}, EVENT_BUS_NAME : {Absent, "", BusName}]

-----------------------------------------------------------------------------
(* Names the handler derives from job_id *)

\* mutation: the output prefix does not depend on the job
OutputPrefixShared(j) == "pages"

InputKey(j) == j \o "/original.pdf"
LocalPdf(j) == "/tmp/" \o j \o "_original.pdf"
OutputPrefix(j) == j \o "_pages"
LocalImg(j, n) == "/tmp/" \o j \o "_page_" \o ToString(n + 1) \o ".png"
\* mutation: the page number in the key is the 0-based loop index
OutputKeyZeroBased(j, n) == OutputPrefix(j) \o "/page_" \o ToString(n) \o ".png"

OutputKey(j, n) == OutputPrefix(j) \o "/page_" \o ToString(n + 1) \o ".png"

\* len(pdf)
PdfLen(d) == CHOOSE n \in 0..MaxPages : DocName(n) = d

\* mutation: the encoder stamps the image with the run that produced it
RenderPngStamped(d, n) ==
    "png(" \o d \o "," \o ToString(n) \o ",x2,run" \o ToString(nInv) \o ")"

\* page.render(scale=2).to_pil() saved as PNG: a function of document, page, scale
RenderScale == 2
RenderPng(d, n) == "png(" \o d \o "," \o ToString(n) \o ",x" \o ToString(RenderScale) \o ")"

\* json.dumps(event_detail)
JsonDumps(d) ==
    "{\"jobId\": \"" \o d.jobId \o "\", \"pageCount\": " \o ToString(d.pageCount)
        \o ", \"imagePrefix\": \"" \o d.imagePrefix \o "\"}"

NoResult == [kind |-> "none", jobId |-> "", pages |-> 0, status |-> ""]
NoHistory ==
    [downloads |-> 0, opened |-> FALSE, renders |-> <<>>, saves |-> <<>>,
     uploadTries |-> <<>>, uploads |-> <<>>, putCalls |-> 0, accepted |-> <<>>,
     failStage |-> "none", failPage |-> 0, source |-> Absent]
NoPrev == [result |-> NoResult, job |-> Unbound, source |-> Absent, s3 |-> EmptyMap,
           uploads |-> <<>>]

-----------------------------------------------------------------------------
(* State after module load: clients constructed, nothing invoked yet.  The  *)
(* environment variables are those of the deployment and stay as they are.  *)

Init ==
    /\ pc = "idle"
    /\ event = [detail |-> "absent", jobId |-> Absent, Records |-> FALSE]
    /\ environ \in Environs
    /\ job_id = Unbound
    /\ pdf_bucket = NoneV
    /\ event_bus_name = NoneV
    /\ pdf = NoneV
    /\ page_count = 0
    /\ i = 0
    /\ output_keys = <<>>
    /\ s3 = EmptyMap
    /\ tmp = EmptyMap
    /\ bus = <<>>
    /\ log = <<>>
    /\ exc = "none"
    /\ result = NoResult
    /\ nInv = 0
    /\ h = NoHistory
    /\ prev = NoPrev

-----------------------------------------------------------------------------
(* Log records *)

Warning(text) == [level |-> "WARNING", text |-> text]
Error(text) == [level |-> "ERROR", text |-> text]

\* line 116: the job named by the final error record
ErrorJob == IF job_id # Unbound THEN Str(job_id) ELSE "unknown"

\* an external call raising: remember where, and unwind to the except clause
Raise(e, stage, page) ==
    /\ exc' = e
    /\ h' = [h EXCEPT !.failStage = stage, !.failPage = page]
    /\ pc' = "except"

-----------------------------------------------------------------------------
(* The infrastructure invokes handler(event, context).  The caller that    *)
(* triggers a job may have stored or replaced the job's source document.   *)

Keep == "<keep>"

Receive(ev, src) ==
    /\ pc \in {"idle", "done"}
    /\ nInv < MaxInvocations
    /\ src # Keep => ev.jobId \in JobIds
    /\ s3' = IF src = Keep THEN s3 ELSE Put(s3, InputKey(ev.jobId), src)
    /\ prev' = IF pc = "done" /\ result.status = "success"
               THEN [result |-> result, job |-> job_id, source |-> h.source,
                     s3 |-> s3, uploads |-> h.uploads]
               ELSE NoPrev
    /\ event' = ev
    /\ job_id' = Unbound
    /\ pdf_bucket' = NoneV
    /\ event_bus_name' = NoneV
    /\ pdf' = NoneV
    /\ page_count' = 0
    /\ i' = 0
    /\ output_keys' = <<>>
    /\ log' = <<>>
    /\ exc' = "none"
    /\ result' = NoResult
    /\ nInv' = nInv + 1
    /\ h' = NoHistory
    /\ pc' = "decode"
    /\ UNCHANGED <<environ, tmp, bus>>

-----------------------------------------------------------------------------
(* Lines 19-30: parse the trigger *)

\* line 19: event.get("detail", {}) is something that has a .get method
DetailReadable(ev) == ev.detail \in {"absent", "map"}

\* line 20: detail.get("jobId")
DetailJobId(ev) == IF ev.detail = "map" THEN Get(ev.jobId) ELSE NoneV

Decode ==
    /\ pc = "decode"
    /\ IF ~DetailReadable(event)
       THEN \* detail.get raises AttributeError; job_id was never assigned
            /\ Raise("AttributeError", "decode", 0)
            /\ UNCHANGED <<job_id, log, result>>
       ELSE IF Truthy(DetailJobId(event))
       THEN /\ job_id' = DetailJobId(event)
            /\ pc' = "config"
            /\ UNCHANGED <<log, result, exc, h>>
       ELSE IF event.Records
       THEN \* lines 25-28: legacy S3 event, warn and return None
            /\ job_id' = "unknown_job_from_s3_event"
            /\ log' = Append(log, Warning("Received S3 event, not EventBridge JobCreated"))
            /\ result' = [NoResult EXCEPT !.kind = "returned None"]
            /\ pc' = "done"
            /\ UNCHANGED <<exc, h>>
       ELSE \* line 30
            /\ job_id' = DetailJobId(event)
            /\ Raise("ValueError: jobId not found in event detail", "decode", 0)
            /\ UNCHANGED <<log, result>>
    /\ UNCHANGED <<event, environ, pdf_bucket, event_bus_name, pdf, page_count, i,
                   output_keys, s3, tmp, bus, nInv, prev>>

-----------------------------------------------------------------------------
\* mutation: the bucket name is read but never checked
ConfigNoCheck ==
    /\ pc = "config"
    /\ pdf_bucket' = Get(environ.S3_BUCKET_PDFS)
    /\ event_bus_name' = Get(environ.EVENT_BUS_NAME)
    /\ pc' = "download"
    /\ UNCHANGED <<event, environ, job_id, pdf, page_count, i, output_keys, s3, tmp,
                   bus, log, exc, result, nInv, h, prev>>

(* Lines 33-37: configuration *)

Config ==
    /\ pc = "config"
    /\ pdf_bucket' = Get(environ.S3_BUCKET_PDFS)
    /\ event_bus_name' = Get(environ.EVENT_BUS_NAME)
    /\ IF ~Truthy(pdf_bucket')
       THEN Raise("ValueError: S3_BUCKET_PDFS environment variable not set", "config", 0)
       ELSE /\ pc' = "download"
            /\ UNCHANGED <<exc, h>>
    /\ UNCHANGED <<event, environ, job_id, pdf, page_count, i, output_keys, s3, tmp,
                   bus, log, result, nInv, prev>>

-----------------------------------------------------------------------------
(* Lines 46-50: s3.download_file(pdf_bucket, input_key, local_pdf) *)

DownloadOk ==
    /\ pc = "download"
    /\ InputKey(job_id) \in DOMAIN s3
    /\ tmp' = Put(tmp, LocalPdf(job_id), s3[InputKey(job_id)])
    /\ h' = [h EXCEPT !.downloads = @ + 1, !.source = s3[InputKey(job_id)]]
    /\ pc' = "open"
    /\ UNCHANGED <<event, environ, job_id, pdf_bucket, event_bus_name, pdf, page_count,
                   i, output_keys, s3, bus, log, exc, result, nInv, prev>>

\* the object is missing, access is denied, or the transfer fails
DownloadFails ==
    /\ pc = "download"
    /\ exc' = "DownloadError"
    /\ h' = [h EXCEPT !.downloads = @ + 1, !.failStage = "download"]
    /\ log' = Append(log, Error("Failed to download PDF: DownloadError"))
    /\ pc' = "except"
    /\ UNCHANGED <<event, environ, job_id, pdf_bucket, event_bus_name, pdf, page_count,
                   i, output_keys, s3, tmp, bus, result, nInv, prev>>

-----------------------------------------------------------------------------
(* Lines 54-60: pdf = pdfium.PdfDocument(local_pdf); page_count = len(pdf) *)

\* mutation: the page loop starts at index 1
OpenSkipsFirstPage ==
    /\ pc = "open"
    /\ IF tmp[LocalPdf(job_id)] = CorruptDoc
       THEN /\ Raise("PdfiumError", "open", 0)
            /\ UNCHANGED <<pdf, page_count, output_keys>>
       ELSE /\ pdf' = tmp[LocalPdf(job_id)]
            /\ page_count' = PdfLen(pdf')
            /\ output_keys' = <<>>
            /\ h' = [h EXCEPT !.opened = TRUE]
            /\ pc' = "loop"
            /\ exc' = exc
    /\ i' = 1
    /\ UNCHANGED <<event, environ, job_id, pdf_bucket, event_bus_name, s3, tmp, bus,
                   log, result, nInv, prev>>

Open ==
    /\ pc = "open"
    /\ IF tmp[LocalPdf(job_id)] = CorruptDoc
       THEN /\ Raise("PdfiumError", "open", 0)
            /\ UNCHANGED <<pdf, page_count, output_keys>>
       ELSE /\ pdf' = tmp[LocalPdf(job_id)]
            /\ page_count' = PdfLen(pdf')
            /\ output_keys' = <<>>
            /\ h' = [h EXCEPT !.opened = TRUE]
            /\ pc' = "loop"
            /\ exc' = exc
    /\ i' = 0
    /\ UNCHANGED <<event, environ, job_id, pdf_bucket, event_bus_name, s3, tmp, bus,
                   log, result, nInv, prev>>

-----------------------------------------------------------------------------
(* Lines 62-81: for i in range(page_count) *)

\* mutation: the loop stops one page early
LoopDoneEarly == i >= page_count - 1

\* range(page_count) is exhausted
LoopDone == i >= page_count

LoopHead ==
    /\ pc = "loop"
    /\ pc' = IF LoopDone THEN "notify" ELSE "render"
    /\ UNCHANGED <<event, environ, job_id, pdf_bucket, event_bus_name, pdf, page_count,
                   i, output_keys, s3, tmp, bus, log, exc, result, nInv, h, prev>>

\* lines 63-66: page = pdf[i]; bitmap = page.render(scale=2); img = bitmap.to_pil()
RenderOk ==
    /\ pc = "render"
    /\ h' = [h EXCEPT !.renders = Append(@, i + 1)]
    /\ pc' = "save"
    /\ UNCHANGED <<event, environ, job_id, pdf_bucket, event_bus_name, pdf, page_count,
                   i, output_keys, s3, tmp, bus, log, exc, result, nInv, prev>>

\* mutation: a page that cannot be rendered is skipped
RenderFailsSkipsPage ==
    /\ pc = "render"
    /\ h' = [h EXCEPT !.failStage = "render", !.failPage = i + 1]
    /\ i' = i + 1
    /\ pc' = "loop"
    /\ UNCHANGED <<event, environ, job_id, pdf_bucket, event_bus_name, pdf, page_count,
                   output_keys, s3, tmp, bus, log, exc, result, nInv, prev>>

RenderFails ==
    /\ pc = "render"
    /\ Raise("RenderError", "render", i + 1)
    /\ UNCHANGED <<event, environ, job_id, pdf_bucket, event_bus_name, pdf, page_count,
                   i, output_keys, s3, tmp, bus, log, result, nInv, prev>>

\* mutation: every local image is the rendering of the first page
SaveOkFirstPage ==
    /\ pc = "save"
    /\ tmp' = Put(tmp, LocalImg(job_id, i), RenderPng(pdf, 0))
    /\ h' = [h EXCEPT !.saves = Append(@, i + 1)]
    /\ pc' = "upload"
    /\ UNCHANGED <<event, environ, job_id, pdf_bucket, event_bus_name, pdf, page_count,
                   i, output_keys, s3, bus, log, exc, result, nInv, prev>>

\* lines 69-70: img.save(local_img)
SaveOk ==
    /\ pc = "save"
    /\ tmp' = Put(tmp, LocalImg(job_id, i), RenderPng(pdf, i))
    /\ h' = [h EXCEPT !.saves = Append(@, i + 1)]
    /\ pc' = "upload"
    /\ UNCHANGED <<event, environ, job_id, pdf_bucket, event_bus_name, pdf, page_count,
                   i, output_keys, s3, bus, log, exc, result, nInv, prev>>

SaveFails ==
    /\ pc = "save"
    /\ Raise("SaveError", "save", i + 1)
    /\ UNCHANGED <<event, environ, job_id, pdf_bucket, event_bus_name, pdf, page_count,
                   i, output_keys, s3, tmp, bus, log, result, nInv, prev>>

\* lines 73-75: s3.upload_file(local_img, pdf_bucket, output_key); output_keys.append
UploadOk ==
    /\ pc = "upload"
    /\ s3' = Put(s3, OutputKey(job_id, i), tmp[LocalImg(job_id, i)])
    /\ output_keys' = Append(output_keys, OutputKey(job_id, i))
    /\ h' = [h EXCEPT !.uploadTries = Append(@, i + 1),
                      !.uploads = Append(@, OutputKey(job_id, i))]
    /\ pc' = "cleanup_img"
    /\ UNCHANGED <<event, environ, job_id, pdf_bucket, event_bus_name, pdf, page_count,
                   i, tmp, bus, log, exc, result, nInv, prev>>

\* mutation: a failed upload is swallowed and the loop goes on
UploadFailsSwallowed ==
    /\ pc = "upload"
    /\ h' = [h EXCEPT !.uploadTries = Append(@, i + 1),
                      !.failStage = "upload", !.failPage = i + 1]
    /\ pc' = "cleanup_img"
    /\ UNCHANGED <<event, environ, job_id, pdf_bucket, event_bus_name, pdf, page_count,
                   i, output_keys, s3, tmp, bus, log, exc, result, nInv, prev>>

\* mutation: a failed upload is tried a second time before giving up
UploadFailsRetriesOnce ==
    /\ pc = "upload"
    /\ IF Len(h.uploadTries) < i + 1
       THEN /\ h' = [h EXCEPT !.uploadTries = Append(@, i + 1)]
            /\ pc' = "upload"
            /\ exc' = exc
       ELSE /\ exc' = "UploadError"
            /\ h' = [h EXCEPT !.uploadTries = Append(@, i + 1),
                              !.failStage = "upload", !.failPage = i + 1]
            /\ pc' = "except"
    /\ UNCHANGED <<event, environ, job_id, pdf_bucket, event_bus_name, pdf, page_count,
                   i, output_keys, s3, tmp, bus, log, result, nInv, prev>>

UploadFails ==
    /\ pc = "upload"
    /\ exc' = "UploadError"
    /\ h' = [h EXCEPT !.uploadTries = Append(@, i + 1),
                      !.failStage = "upload", !.failPage = i + 1]
    /\ pc' = "except"
    /\ UNCHANGED <<event, environ, job_id, pdf_bucket, event_bus_name, pdf, page_count,
                   i, output_keys, s3, tmp, bus, log, result, nInv, prev>>

\* mutation: the local image is never removed
CleanupImgKeepsFile ==
    /\ pc = "cleanup_img"
    /\ i' = i + 1
    /\ pc' = "loop"
    /\ UNCHANGED <<event, environ, job_id, pdf_bucket, event_bus_name, pdf, page_count,
                   output_keys, s3, tmp, bus, log, exc, result, nInv, h, prev>>

\* lines 78-79: remove the local image, then the next iteration
CleanupImg ==
    /\ pc = "cleanup_img"
    /\ tmp' = IF LocalImg(job_id, i) \in DOMAIN tmp
              THEN Remove(tmp, LocalImg(job_id, i)) ELSE tmp
    /\ i' = i + 1
    /\ pc' = "loop"
    /\ UNCHANGED <<event, environ, job_id, pdf_bucket, event_bus_name, pdf, page_count,
                   output_keys, s3, bus, log, exc, result, nInv, h, prev>>

-----------------------------------------------------------------------------
(* Lines 84-103: publish ImagesGenerated *)

\* lines 86-99: the single entry handed to put_events
Entry ==
    [Source |-> "pdf-lecture-service",
     DetailType |-> "ImagesGenerated",
     Detail |-> JsonDumps([jobId |-> job_id, pageCount |-> page_count,
                           imagePrefix |-> OutputPrefix(job_id)]),
     EventBusName |-> event_bus_name]

\* put_events returns, the bus having accepted the entry
NotifyAccepted ==
    /\ pc = "notify"
    /\ Truthy(event_bus_name)
    /\ bus' = Append(bus, Entry)
    /\ h' = [h EXCEPT !.putCalls = @ + 1, !.accepted = Append(@, Entry)]
    /\ pc' = "cleanup_pdf"
    /\ UNCHANGED <<event, environ, job_id, pdf_bucket, event_bus_name, pdf, page_count,
                   i, output_keys, s3, tmp, log, exc, result, nInv, prev>>

\* put_events returns a response with FailedEntryCount = 1: the bus did not
\* accept the entry; the handler does not look at the response
NotifyRejected ==
    /\ pc = "notify"
    /\ Truthy(event_bus_name)
    /\ h' = [h EXCEPT !.putCalls = @ + 1]
    /\ pc' = "cleanup_pdf"
    /\ UNCHANGED <<event, environ, job_id, pdf_bucket, event_bus_name, pdf, page_count,
                   i, output_keys, s3, tmp, bus, log, exc, result, nInv, prev>>

\* put_events raises (bus not found, access denied, network)
NotifyRaises ==
    /\ pc = "notify"
    /\ Truthy(event_bus_name)
    /\ exc' = "PublishError"
    /\ h' = [h EXCEPT !.putCalls = @ + 1, !.failStage = "publish"]
    /\ pc' = "except"
    /\ UNCHANGED <<event, environ, job_id, pdf_bucket, event_bus_name, pdf, page_count,
                   i, output_keys, s3, tmp, bus, log, result, nInv, prev>>

\* mutation: a missing bus name is treated as an error
NotifySkippedRaises ==
    /\ pc = "notify"
    /\ ~Truthy(event_bus_name)
    /\ Raise("ValueError: EVENT_BUS_NAME not set", "publish", 0)
    /\ UNCHANGED <<event, environ, job_id, pdf_bucket, event_bus_name, pdf, page_count,
                   i, output_keys, s3, tmp, bus, log, result, nInv, prev>>

\* line 103: no bus configured
NotifySkipped ==
    /\ pc = "notify"
    /\ ~Truthy(event_bus_name)
    /\ log' = Append(log, Warning("EVENT_BUS_NAME not set, skipping event publication"))
    /\ pc' = "cleanup_pdf"
    /\ UNCHANGED <<event, environ, job_id, pdf_bucket, event_bus_name, pdf, page_count,
                   i, output_keys, s3, tmp, bus, exc, result, nInv, h, prev>>

-----------------------------------------------------------------------------
(* Lines 106-113: remove the local PDF and return the success record *)

\* mutation: the source object is deleted once it has been processed
CleanupPdfDeletesSource ==
    /\ pc = "cleanup_pdf"
    /\ tmp' = IF LocalPdf(job_id) \in DOMAIN tmp THEN Remove(tmp, LocalPdf(job_id)) ELSE tmp
    /\ s3' = Remove(s3, InputKey(job_id))
    /\ pc' = "return"
    /\ UNCHANGED <<event, environ, job_id, pdf_bucket, event_bus_name, pdf, page_count,
                   i, output_keys, bus, log, exc, result, nInv, h, prev>>

CleanupPdf ==
    /\ pc = "cleanup_pdf"
    /\ tmp' = IF LocalPdf(job_id) \in DOMAIN tmp THEN Remove(tmp, LocalPdf(job_id)) ELSE tmp
    /\ pc' = "return"
    /\ UNCHANGED <<event, environ, job_id, pdf_bucket, event_bus_name, pdf, page_count,
                   i, output_keys, s3, bus, log, exc, result, nInv, h, prev>>

\* mutation: the success record is returned without removing the local PDF
ReturnEarly ==
    /\ pc \in {"cleanup_pdf", "return"}
    /\ result' = [kind |-> "returned", jobId |-> job_id, pages |-> page_count,
                  status |-> "success"]
    /\ pc' = "done"
    /\ UNCHANGED <<event, environ, job_id, pdf_bucket, event_bus_name, pdf, page_count,
                   i, output_keys, s3, tmp, bus, log, exc, nInv, h, prev>>

Return ==
    /\ pc = "return"
    /\ result' = [kind |-> "returned", jobId |-> job_id, pages |-> page_count,
                  status |-> "success"]
    /\ pc' = "done"
    /\ UNCHANGED <<event, environ, job_id, pdf_bucket, event_bus_name, pdf, page_count,
                   i, output_keys, s3, tmp, bus, log, exc, nInv, h, prev>>

-----------------------------------------------------------------------------
(* Lines 115-117: log the error with the job context and re-raise *)

Except ==
    /\ pc = "except"
    /\ log' = Append(log, Error("Error processing job " \o ErrorJob \o ": " \o exc))
    /\ result' = [NoResult EXCEPT !.kind = "raised"]
    /\ pc' = "done"
    /\ UNCHANGED <<event, environ, job_id, pdf_bucket, event_bus_name, pdf, page_count,
                   i, output_keys, s3, tmp, bus, exc, nInv, h, prev>>

-----------------------------------------------------------------------------

Next ==
    \/ \E ev \in Payloads, src \in Docs \cup {Keep} : Receive(ev, src)
    \/ Decode
    \/ Config
    \/ DownloadOk
    \/ DownloadFails
    \/ Open
    \/ LoopHead
    \/ RenderOk
    \/ RenderFails
    \/ SaveOk
    \/ SaveFails
    \/ UploadOk
    \/ UploadFails
    \/ CleanupImg
    \/ NotifyAccepted
    \/ NotifyRejected
    \/ NotifyRaises
    \/ NotifySkipped
    \/ CleanupPdf
    \/ Return
    \/ Except

\* the steps of a running invocation: everything but the arrival of a trigger
HandlerStep ==
    \/ Decode \/ Config \/ DownloadOk \/ DownloadFails \/ Open \/ LoopHead
    \/ RenderOk \/ RenderFails \/ SaveOk \/ SaveFails \/ UploadOk \/ UploadFails
    \/ CleanupImg \/ NotifyAccepted \/ NotifyRejected \/ NotifyRaises \/ NotifySkipped
    \/ CleanupPdf \/ Return \/ Except

Spec == Init /\ [][Next]_vars

\* every external call returns or raises, and the interpreter keeps running
\* the handler: a running invocation always takes its next step
FairSpec == Spec /\ WF_vars(HandlerStep)

-----------------------------------------------------------------------------
(* Vocabulary of the properties *)

\* the trigger names a job: detail is a dict with a non-empty jobId
NamesJob(ev) == ev.detail = "map" /\ ev.jobId \notin {Absent, NoneV, ""}

\* N: the page count of the source document this invocation downloaded
\* (-1 while nothing was downloaded, or when the download is not a PDF)
SourcePages ==
    IF h.source \in {DocName(n) : n \in 0..MaxPages} THEN PdfLen(h.source) ELSE -1

\* the storage key of page k (1-based) of job j, as the key convention states it
PageKey(j, k) == j \o "_pages/page_" \o ToString(k) \o ".png"

\* the keys of pages 1..n of job j, in page order
PageKeys(j, n) == [k \in 1..n |-> PageKey(j, k)]

\* the pages 1..n in order
Pages(n) == [k \in 1..n |-> k]

Succeeded == pc = "done" /\ result.status = "success"
Failed == pc = "done" /\ result.kind = "raised"
ChannelConfigured == environ.EVENT_BUS_NAME \notin {Absent, ""}

\* the completion event of job j with n pages
CompletionEntry(j, n) ==
    [Source |-> "pdf-lecture-service",
     DetailType |-> "ImagesGenerated",
     Detail |-> JsonDumps([jobId |-> j, pageCount |-> n, imagePrefix |-> j \o "_pages"]),
     EventBusName |-> environ.EVENT_BUS_NAME]

-----------------------------------------------------------------------------
(* C1: whenever the running invocation has called put_events (and so       *)
(* whenever its completion event is on the bus), every page 1..N of the    *)
(* document it downloaded has been uploaded by it: never fewer than N.     *)

C1_PublishOnlyAfterAllUploads ==
    (h.putCalls > 0 \/ h.accepted # <<>>) =>
        /\ SourcePages >= 0
        /\ h.uploads = PageKeys(event.jobId, SourcePages)
        /\ \A k \in 1..SourcePages : PageKey(event.jobId, k) \in DOMAIN s3

C1_Witness ==
    /\ h.accepted # <<>>
    /\ SourcePages = 2
    /\ Len(h.uploads) = 2

-----------------------------------------------------------------------------
(* C2: an invocation that returns success has uploaded exactly the keys    *)
(* page_1 .. page_N of its job, returns pages = N, and, when a channel is  *)
(* configured, its completion event with pageCount N is on the bus (also   *)
(* for N = 0, where nothing is uploaded).                                  *)

C2_SuccessMeansNPagesAndEvent ==
    Succeeded =>
        /\ SourcePages >= 0
        /\ h.uploads = PageKeys(event.jobId, SourcePages)
        /\ result.pages = SourcePages
        /\ \A n \in 1..Len(h.accepted) :
               h.accepted[n] = CompletionEntry(event.jobId, SourcePages)
        /\ ChannelConfigured => h.accepted # <<>>

-----------------------------------------------------------------------------
(* C3: once the upload of page k has failed, the invocation only unwinds:  *)
(* it ends raising, publishes nothing, returns no success record, renders  *)
(* and uploads no page after k, and pages 1..k-1 stay in the bucket.       *)

C3_UploadFailureAborts ==
    h.failStage = "upload" =>
        /\ pc \in {"except", "done"}
        /\ pc = "done" => result.kind = "raised"
        /\ exc = "UploadError"
        /\ h.putCalls = 0 /\ h.accepted = <<>>
        /\ h.renders = Pages(h.failPage)
        /\ h.uploadTries = Pages(h.failPage)
        /\ h.uploads = PageKeys(event.jobId, h.failPage - 1)
        /\ \A k \in 1..(h.failPage - 1) :
               /\ PageKey(event.jobId, k) \in DOMAIN s3
               /\ s3[PageKey(event.jobId, k)] = RenderPng(h.source, k - 1)

C3_Witness ==
    /\ Failed
    /\ h.failStage = "upload"
    /\ h.failPage = 2
    /\ PageKey(event.jobId, 1) \in DOMAIN s3

-----------------------------------------------------------------------------
(* C4: with a channel configured, handler returns the success record only  *)
(* for an invocation whose completion event the bus has accepted.          *)

C4_SuccessImpliesPublished ==
    (Succeeded /\ ChannelConfigured) => h.accepted # <<>>

-----------------------------------------------------------------------------
(* C5: with a channel configured, a successful invocation has published    *)
(* exactly one event, the ImagesGenerated entry of its job with pageCount  *)
(* N; no invocation calls put_events more than once; one that failed       *)
(* before the notify stage or took the legacy return has published none.   *)

C5_ExactlyOneEvent ==
    /\ h.putCalls <= 1
    /\ (Succeeded /\ ChannelConfigured) =>
           h.accepted = <<CompletionEntry(event.jobId, SourcePages)>>
    /\ (pc = "done" /\ (h.failStage \notin {"none", "publish"}
                        \/ result.kind = "returned None")) =>
           h.putCalls = 0 /\ h.accepted = <<>>

-----------------------------------------------------------------------------
(* C6: with no channel configured (EVENT_BUS_NAME missing or empty), an    *)
(* invocation that downloaded and opened the document and uploaded all N   *)
(* pages ends returning {jobId, pages: N, status: success} and has made no *)
(* publish call.                                                           *)

C6_NoChannelStillSucceeds ==
    (pc = "done" /\ ~ChannelConfigured /\ h.opened
        /\ h.uploads = PageKeys(event.jobId, SourcePages)) =>
        /\ result = [kind |-> "returned", jobId |-> event.jobId,
                     pages |-> SourcePages, status |-> "success"]
        /\ h.putCalls = 0
        /\ h.accepted = <<>>

C6_Witness ==
    /\ Succeeded
    /\ environ.EVENT_BUS_NAME = ""
    /\ result.pages = 2
    /\ Len(h.uploads) = 2

-----------------------------------------------------------------------------
(* C7: a payload that names a job runs the pipeline under exactly that job *)
(* id, with or without a Records list; a payload that names none ends at   *)
(* once, returning without error when it carries Records and raising       *)
(* otherwise, and in both cases touches neither the bucket, /tmp nor the   *)
(* bus.                                                                    *)

NoExternalCall ==
    /\ h.downloads = 0 /\ h.saves = <<>> /\ h.uploadTries = <<>> /\ h.putCalls = 0
    /\ h.renders = <<>> /\ h.uploads = <<>> /\ h.accepted = <<>>

C7_TriggerDecoding ==
    pc \notin {"idle", "decode"} =>
        IF NamesJob(event)
        THEN job_id = event.jobId
        ELSE /\ pc \in {"except", "done"}
             /\ NoExternalCall
             /\ pc = "done" =>
                    IF event.Records
                    THEN result.kind = "returned None" /\ exc = "none"
                    ELSE result.kind = "raised"

\* the part of the above that the handler keeps: it leaves out only what a
\* payload with Records and an unreadable `detail` returns
C7_DecodingOfReadableDetail ==
    pc \notin {"idle", "decode"} =>
        IF NamesJob(event)
        THEN job_id = event.jobId
        ELSE /\ pc \in {"except", "done"}
             /\ NoExternalCall
             /\ pc = "done" =>
                    IF event.Records /\ DetailReadable(event)
                    THEN result.kind = "returned None" /\ exc = "none"
                    ELSE result.kind = "raised"

-----------------------------------------------------------------------------
(* C8: for a payload that names a job, when S3_BUCKET_PDFS is missing the  *)
(* invocation ends raising the missing-configuration error, and it never   *)
(* downloads, uploads or publishes, whatever EVENT_BUS_NAME holds.         *)

C8_MissingBucketFailsBeforeIO ==
    (NamesJob(event) /\ environ.S3_BUCKET_PDFS = Absent
        /\ pc \notin {"idle", "decode", "config"}) =>
        /\ pc \in {"except", "done"}
        /\ exc = "ValueError: S3_BUCKET_PDFS environment variable not set"
        /\ pc = "done" => result.kind = "raised"
        /\ NoExternalCall

C8_Witness ==
    /\ Failed
    /\ NamesJob(event)
    /\ environ.S3_BUCKET_PDFS = Absent
    /\ environ.EVENT_BUS_NAME = BusName
    /\ h.failStage = "config"

-----------------------------------------------------------------------------
(* C9: once the download, the opening of the document or the rendering of  *)
(* page k has failed, the invocation only unwinds: it ends raising, with   *)
(* no success record, no publish call and no upload after the failure      *)
(* (pages 1..k-1 only); after a download or open failure nothing was       *)
(* rendered or uploaded.                                                   *)

C9_StageFailureIsTerminal ==
    h.failStage \in {"download", "open", "render"} =>
        /\ pc \in {"except", "done"}
        /\ pc = "done" => result.kind = "raised"
        /\ exc # "none"
        /\ h.putCalls = 0 /\ h.accepted = <<>>
        /\ h.failStage \in {"download", "open"} =>
               h.renders = <<>> /\ h.saves = <<>> /\ h.uploadTries = <<>> /\ h.uploads = <<>>
        /\ h.failStage = "render" =>
               /\ h.renders = Pages(h.failPage - 1)
               /\ h.uploadTries = Pages(h.failPage - 1)
               /\ h.uploads = PageKeys(event.jobId, h.failPage - 1)

C9_Witness ==
    /\ Failed
    /\ h.failStage = "render"
    /\ h.failPage = 2
    /\ Len(h.uploads) = 1

-----------------------------------------------------------------------------
(* C10: when an invocation succeeds right after a successful invocation    *)
(* for the same job id that read the same source document, it has written  *)
(* the same keys with the same content, the bucket is as the first run     *)
(* left it, and it returns the same record.                                *)

SecondRunOfSameJob ==
    /\ Succeeded
    /\ prev.result.status = "success"
    /\ prev.job = job_id
    /\ prev.source = h.source

C10_Idempotent ==
    SecondRunOfSameJob =>
        /\ h.uploads = prev.uploads
        /\ \A n \in 1..Len(h.uploads) :
               /\ h.uploads[n] \in DOMAIN prev.s3
               /\ s3[h.uploads[n]] = prev.s3[h.uploads[n]]
        /\ s3 = prev.s3
        /\ result = prev.result

C10_Witness ==
    /\ SecondRunOfSameJob
    /\ result.pages = 2
    /\ Len(h.uploads) = 2

-----------------------------------------------------------------------------
(* C11: no step of handler creates, overwrites or deletes an object at a   *)
(* key {jobId}/original.pdf; every object a step of handler changes, and   *)
(* every key it uploads to, has the form {jobId}_pages/page_{i}.png.       *)

EndsWith(str, suffix) ==
    /\ Len(str) >= Len(suffix)
    /\ SubSeq(str, Len(str) - Len(suffix) + 1, Len(str)) = suffix

StartsWith(str, prefix) ==
    /\ Len(str) >= Len(prefix)
    /\ SubSeq(str, 1, Len(prefix)) = prefix

IsSourceKey(k) == EndsWith(k, "/original.pdf")
IsPageKey(k) == \E j \in JobIds, n \in 1..MaxPages : k = PageKey(j, n)

\* the keys whose object differs between the bucket states a and b
ChangedKeys(a, b) ==
    {k \in (DOMAIN a) \cup (DOMAIN b) :
        k \notin DOMAIN a \/ k \notin DOMAIN b \/ a[k] # b[k]}

C11_SourceOnlyRead ==
    [][pc \notin {"idle", "done"} =>
          /\ \A k \in ChangedKeys(s3, s3') : IsPageKey(k) /\ ~IsSourceKey(k)
          /\ \A n \in 1..Len(h'.uploads) :
                 IsPageKey(h'.uploads[n]) /\ ~IsSourceKey(h'.uploads[n])]_vars

C11_Witness ==
    /\ Succeeded
    /\ Len(h.uploads) = 2
    /\ (event.jobId \o "/original.pdf") \in DOMAIN s3
    /\ s3[event.jobId \o "/original.pdf"] = h.source

-----------------------------------------------------------------------------
(* C12: when handler returns the success record, the local PDF it          *)
(* downloaded and every local page image it saved are gone from /tmp,      *)
(* with or without a channel configured.                                   *)

ScratchPdf(j) == "/tmp/" \o j \o "_original.pdf"
ScratchImg(j, k) == "/tmp/" \o j \o "_page_" \o ToString(k) \o ".png"

C12_ScratchRemovedOnSuccess ==
    Succeeded =>
        /\ h.downloads = 1
        /\ ScratchPdf(event.jobId) \notin DOMAIN tmp
        /\ h.saves = Pages(SourcePages)
        /\ \A n \in 1..Len(h.saves) : ScratchImg(event.jobId, h.saves[n]) \notin DOMAIN tmp

C12_Witness ==
    /\ Succeeded
    /\ ChannelConfigured
    /\ Len(h.saves) = 2

-----------------------------------------------------------------------------
(* C13: the keys an invocation uploads to differ from every output key and *)
(* from the input key of any other job id, and from its own input key; in  *)
(* particular two successive invocations for different job ids write       *)
(* disjoint sets of keys.  Job ids that contain the key separators are     *)
(* probed as the other job.                                                *)

ProbeJobIds ==
    JobIds \cup {"abc123_pages", "abc123_pages/page_1.png", "abc123/original.pdf",
                 "j2_pages/page_", "j", ""}

C13_KeysAreJobScoped ==
    \A n \in 1..Len(h.uploads) :
        /\ h.uploads[n] # InputKey(event.jobId)
        /\ \A other \in ProbeJobIds \ {event.jobId} :
               /\ h.uploads[n] # InputKey(other)
               /\ \A m \in 0..MaxPages : h.uploads[n] # OutputKey(other, m)
        /\ prev.job # job_id => \A m \in 1..Len(prev.uploads) : h.uploads[n] # prev.uploads[m]

C13_Witness ==
    /\ Succeeded
    /\ prev.result.status = "success"
    /\ prev.job # job_id
    /\ Len(prev.uploads) = 2
    /\ Len(h.uploads) = 2

-----------------------------------------------------------------------------
(* C14, as stated: once an invocation has attempted its first upload, all  *)
(* N pages of its document have been rendered (Rasterizing is over before  *)
(* Uploading begins).                                                      *)

C14_AllRenderedBeforeFirstUpload ==
    h.uploadTries # <<>> => Len(h.renders) = SourcePages

(* C14, amended: the stages follow each other in the order download, open, *)
(* then page by page render, save, upload, then publish, then the return;  *)
(* page k+1 is rendered only after the upload of page k has succeeded, so  *)
(* rendering and uploading alternate instead of all pages being rendered   *)
(* first.                                                                  *)

C14_StagesInOrderPageByPage ==
    /\ h.opened => h.downloads = 1
    /\ h.renders # <<>> => h.opened
    /\ h.renders = Pages(Len(h.renders))
    /\ h.saves = Pages(Len(h.saves))
    /\ h.uploadTries = Pages(Len(h.uploadTries))
    /\ Len(h.uploads) <= Len(h.uploadTries)
    /\ Len(h.uploadTries) <= Len(h.saves)
    /\ Len(h.saves) <= Len(h.renders)
    /\ Len(h.renders) <= Len(h.uploads) + 1
    /\ h.opened => Len(h.renders) <= SourcePages
    /\ h.putCalls > 0 => Len(h.renders) = SourcePages /\ Len(h.uploads) = SourcePages
    /\ Succeeded => /\ Len(h.uploads) = SourcePages
                    /\ ChannelConfigured => h.putCalls = 1

C14_Witness ==
    /\ pc = "save"
    /\ h.renders = <<1, 2>>
    /\ Len(h.uploads) = 1

-----------------------------------------------------------------------------
(* C15: the local image of a page is in /tmp when its upload is attempted; *)
(* outside the cleanup step itself, a local image this invocation saved    *)
(* is gone exactly if its upload succeeded, so it is gone before the next  *)
(* page is rendered; after a failed upload of page k its local image is    *)
(* still there and the caller receives the upload error.                   *)

C15_ScratchImageLifecycle ==
    /\ pc = "upload" =>
           /\ h.saves # <<>>
           /\ ScratchImg(event.jobId, Len(h.saves)) \in DOMAIN tmp
           /\ Len(h.uploadTries) = Len(h.saves) - 1
    /\ Len(h.uploadTries) <= Len(h.saves)
    /\ pc # "cleanup_img" =>
           \A n \in 1..Len(h.saves) :
               (ScratchImg(event.jobId, h.saves[n]) \notin DOMAIN tmp)
                   <=> (h.saves[n] <= Len(h.uploads))
    /\ pc = "render" =>
           \A k \in 1..Len(h.uploads) : ScratchImg(event.jobId, k) \notin DOMAIN tmp
    /\ h.failStage = "upload" =>
           /\ ScratchImg(event.jobId, h.failPage) \in DOMAIN tmp
           /\ exc = "UploadError"
           /\ pc = "done" => result.kind = "raised"

C15_Witness ==
    /\ Failed
    /\ h.failStage = "upload"
    /\ h.failPage = 2
    /\ ScratchImg(event.jobId, 2) \in DOMAIN tmp
    /\ ScratchImg(event.jobId, 1) \notin DOMAIN tmp

-----------------------------------------------------------------------------
(* C16: under FairSpec every invocation that has started reaches its end,  *)
(* with exactly one outcome (success record, raised failure, or the legacy *)
(* return of None) and none before the end; the page loop renders at most  *)
(* N pages; download, the upload of each page and put_events are each      *)
(* attempted at most once per invocation.                                  *)

NoRepeat(seq) == \A a, b \in 1..Len(seq) : a # b => seq[a] # seq[b]

AtMostOnceEach ==
    /\ h.downloads <= 1
    /\ h.putCalls <= 1
    /\ NoRepeat(h.uploadTries)
    /\ NoRepeat(h.renders)
    /\ Len(h.renders) <= (IF SourcePages >= 0 THEN SourcePages ELSE 0)
    /\ pc = "done" => result.kind \in {"returned", "raised", "returned None"}
    /\ pc \notin {"idle", "done"} => result.kind = "none"

C16_TerminatesWithoutRetry ==
    /\ []AtMostOnceEach
    /\ (pc \notin {"idle", "done"}) ~> (pc = "done")

C16_Witness ==
    /\ Succeeded
    /\ h.downloads = 1
    /\ h.renders = <<1, 2>>
    /\ h.uploadTries = <<1, 2>>
    /\ h.putCalls = 1

-----------------------------------------------------------------------------
(* C17: in every state the keys the invocation has uploaded, and its       *)
(* output_keys list, are page_1 .. page_k of its job in that order, with   *)
(* 0 <= k <= N; the upload attempts are pages 1..k, or 1..k+1 when the     *)
(* attempt for page k+1 has just failed, so page k+1 is attempted only     *)
(* after page k succeeded.                                                 *)

C17_UploadsAreContiguousPrefix ==
    /\ output_keys = PageKeys(event.jobId, Len(output_keys))
    /\ h.uploads = output_keys
    /\ Len(output_keys) <= (IF h.opened THEN SourcePages ELSE 0)
    /\ \A k \in 1..Len(output_keys) : PageKey(event.jobId, k) \in DOMAIN s3
    /\ h.uploadTries = Pages(Len(h.uploadTries))
    /\ \/ Len(h.uploadTries) = Len(h.uploads)
       \/ /\ Len(h.uploadTries) = Len(h.uploads) + 1
          /\ h.failStage = "upload"
          /\ pc \in {"except", "done"}

C17_Witness ==
    /\ pc = "render"
    /\ SourcePages = 2
    /\ output_keys = <<PageKey(event.jobId, 1)>>

-----------------------------------------------------------------------------
(* C18, as stated: whenever an invocation returns success with N pages,    *)
(* the objects under the prefix {jobId}_pages/ are exactly page_1.png ..   *)
(* page_N.png, whatever ran before.                                        *)

UnderPrefix(j) == {k \in DOMAIN s3 : StartsWith(k, j \o "_pages/")}

C18_PrefixHoldsExactlyNPages ==
    Succeeded =>
        UnderPrefix(event.jobId) = {PageKey(event.jobId, k) : k \in 1..SourcePages}

(* C18, amended: whenever an invocation returns success with N pages, the  *)
(* objects under the prefix include page_1.png .. page_N.png, each the     *)
(* rendering of that page of the document just read, and these are the     *)
(* objects this invocation wrote; any other object under the prefix is a   *)
(* page_k.png with k > N that an earlier run left there.                   *)

C18_PrefixHoldsAtLeastNPages ==
    Succeeded =>
        /\ \A k \in 1..SourcePages :
               /\ PageKey(event.jobId, k) \in UnderPrefix(event.jobId)
               /\ s3[PageKey(event.jobId, k)] = RenderPng(h.source, k - 1)
        /\ h.uploads = PageKeys(event.jobId, SourcePages)
        /\ \A key \in UnderPrefix(event.jobId) :
               \E k \in 1..MaxPages :
                   /\ key = PageKey(event.jobId, k)
                   /\ k > SourcePages => \A n \in 1..Len(h.uploads) : h.uploads[n] # key
        /\ \A n \in 1..Len(h.accepted) :
               h.accepted[n] = CompletionEntry(event.jobId, SourcePages)

C18_Witness ==
    /\ Succeeded
    /\ SourcePages = 1
    /\ PageKey(event.jobId, 1) \in DOMAIN s3
    /\ PageKey(event.jobId, 2) \in DOMAIN s3
    /\ h.accepted # <<>>

-----------------------------------------------------------------------------
(* C19: a failing invocation has logged exactly one error record that      *)
(* carries the job context, as its last record: it names the trigger's     *)
(* jobId when the trigger names a job, and "unknown" otherwise.            *)

JobContextRecords ==
    {n \in 1..Len(log) :
        log[n].level = "ERROR" /\ StartsWith(log[n].text, "Error processing job ")}

C19_ErrorRecordNamesJob ==
    Failed =>
        /\ Cardinality(JobContextRecords) = 1
        /\ log[Len(log)] =
               [level |-> "ERROR",
                text |-> "Error processing job "
                         \o (IF NamesJob(event) THEN event.jobId ELSE "unknown")
                         \o ": " \o exc]

====
